---- MODULE Spec2Model ----
(***************************************************************************)
(* A model of lifelines' PiecewiseExponentialRegressionFitter              *)
(* (src/lifelines/fitters/piecewise_exponential_regression_fitter.py).     *)
(*                                                                         *)
(* The fitter object is the record `self`; `call` is the last call made on *)
(* it: its arguments, what it returned or raised, the warnings it emitted. *)
(* An attribute that Python may lack (hasattr) is a sequence: <<>> while   *)
(* the attribute is absent, <<v>> once it holds v.                         *)
(*                                                                         *)
(* Numbers.  Times and breakpoints are integers and np.inf is Inf, a value *)
(* above every time of the model.  Weights are counted in halves (2 is the *)
(* weight 1.0, 1 is 0.5).  Gradients of np.minimum are in halves as well   *)
(* (autograd gives each argument 1/2 at a tie).                            *)
(*                                                                         *)
(* Real-valued results are kept as the terms they are computed from: a     *)
(* rate exp(-x.b) is the pair (x, b), the minimiser and the log-likelihood *)
(* scipy returns are named by the data the objective was built on.         *)
(* Covariate values are not modelled: a table of covariates is its column  *)
(* names, its row labels and the columns that hold 1.0 in every row.       *)
(***************************************************************************)
EXTENDS Integers, Sequences, FiniteSets, Bags, TLC

VARIABLES self, call, fits

vars == <<self, call, fits>>

----------------------------------------------------------------------------
(* Bounds of the model *)

MaxBreaks == 2     \* breakpoints handed to the constructor
MaxBp == 2         \* finite breakpoints are Step * (0 .. MaxBp)
MaxT == 2          \* durations are Step * (0 .. MaxT)
MaxBatch == 2      \* rows of a dataset, of a batch of durations or of times
MaxCov == 1        \* covariate columns of a dataset, the intercept aside
MaxW2 == 2         \* weights, in halves, are 0 .. MaxW2
MaxPenalizer == 1  \* penalizer is 0 .. MaxPenalizer
MaxFits == 2       \* fit calls made on one fitter
MaxLifeBreaks == 1 \* breakpoints of the fitters followed through several calls
MaxCensored == 1   \* censored rows of their datasets
MaxCoef == 1       \* numeric coefficients are 0 .. MaxCoef

Inf == 1000        \* np.inf
Step == 4          \* ticks per unit of time: np.percentile(T, 75) falls on a tick

----------------------------------------------------------------------------
(* Numeric helpers: numpy on integer vectors *)

Min(a, b) == IF a <= b THEN a ELSE b

Range(s) == {s[i] : i \in DOMAIN s}

RECURSIVE Sum(_)
Sum(s) == IF Len(s) = 0 THEN 0 ELSE s[1] + Sum(Tail(s))

RECURSIVE Insert(_, _)
Insert(v, s) ==
    IF Len(s) = 0 THEN <<v>>
    ELSE IF v <= s[1] THEN <<v>> \o s
    ELSE <<s[1]>> \o Insert(v, Tail(s))

\* np.sort
RECURSIVE Sort(_)
Sort(s) == IF Len(s) = 0 THEN <<>> ELSE Insert(s[1], Sort(Tail(s)))

\* All sequences over S of length lo..hi
SeqsOf(S, lo, hi) == UNION {[1..n -> S] : n \in lo..hi}

----------------------------------------------------------------------------
(* __init__ *)

NoFitter == [exists |-> FALSE]

\* An attribute the object does not have yet (hasattr is False)
Absent == <<>>

\* None, where an array is optional
PyNone == <<>>

HasAttr(v) == v # Absent

\* range(self.n_breakpoints), the i of "lambda_%d_" % i
FittedParameterNames(n_breakpoints) == [i \in 1..n_breakpoints |-> i - 1]

\* The checks of the sorted breakpoints, without the check of the largest
CheckBreakpointsInfPasses(sorted) ==
    IF Len(sorted) > 0 /\ sorted[1] < 0
    THEN "First breakpoint must be greater than 0."
    ELSE ""

\* The checks __init__ makes of the sorted breakpoints: the message of the
\* ValueError raised, "" when none is
CheckBreakpoints(sorted) ==
    IF Len(sorted) > 0 /\ ~(sorted[Len(sorted)] < Inf)
    THEN "Do not add inf to the breakpoints."
    ELSE IF Len(sorted) > 0 /\ sorted[1] < 0
    THEN "First breakpoint must be greater than 0."
    ELSE ""

NewFitter(bps, penalizer, fit_intercept) ==
    LET sorted == Sort(bps)
        n == Len(sorted)
        msg == CheckBreakpoints(sorted)
    IN  IF msg # ""
        THEN [exc |-> "ValueError", msg |-> msg, obj |-> NoFitter]
        ELSE [exc |-> "", msg |-> "",
              obj |-> [exists |-> TRUE,
                       breakpoints |-> Append(sorted, Inf),
                       n_breakpoints |-> n + 1,
                       penalizer |-> penalizer,
                       fit_intercept |-> fit_intercept,
                       fitted_parameter_names |-> FittedParameterNames(n + 1),
                       duration_col |-> Absent, event_col |-> Absent,
                       weights_col |-> Absent, n_examples |-> Absent,
                       timeline |-> Absent, robust |-> Absent,
                       durations |-> Absent, event_observed |-> Absent,
                       weights |-> Absent,
                       LOOKUP_SLICE |-> Absent, norm_mean |-> Absent,
                       norm_std |-> Absent,
                       log_likelihood |-> Absent, hessian_ |-> Absent,
                       params_ |-> Absent, variance_matrix_ |-> Absent,
                       standard_errors_ |-> Absent,
                       confidence_intervals_ |-> Absent,
                       predicted_cumulative_hazard_ |-> Absent,
                       concordance_score_ |-> Absent,
                       ll_null_ |-> Absent]]

----------------------------------------------------------------------------
(* _create_slicer: name i -> slice(position, position + size_of_X) *)

RECURSIVE SlicerLoop(_, _, _, _)
SlicerLoop(names, size_of_X, position, lookup) ==
    IF Len(names) = 0 THEN lookup
    ELSE SlicerLoop(Tail(names), size_of_X, position + size_of_X,
                    [n \in DOMAIN lookup \cup {names[1]} |->
                        IF n = names[1] THEN <<position, position + size_of_X>>
                        ELSE lookup[n]])

\* _create_slicer advancing position by 1 instead of size_of_X
CreateSlicerOverlapping(obj, size_of_X) ==
    [n \in Range(obj.fitted_parameter_names) |-> <<n, n + size_of_X>>]

CreateSlicer(obj, size_of_X) ==
    SlicerLoop(obj.fitted_parameter_names, size_of_X, 0, <<>>)

\* params[slice(start, stop)]
Slice(params, sl) == SubSeq(params, sl[1] + 1, Min(sl[2], Len(params)))

----------------------------------------------------------------------------
(* _cumulative_hazard, _hazard *)

\* np.minimum(np.tile(bp, (n, 1)), T), one row
MinRow(bp, t) == [i \in 1..Len(bp) |-> Min(bp[i], t)]

\* np.diff alone, the first column lost
DiffRowFirstLost(m) == [i \in 1..Len(m) |-> IF i = 1 THEN 0 ELSE m[i] - m[i - 1]]

\* np.hstack([M[:, (0,)], np.diff(M, axis=1)]), one row
DiffRow(m) == [i \in 1..Len(m) |-> IF i = 1 THEN m[1] ELSE m[i] - m[i - 1]]

\* M of _cumulative_hazard: the time each duration spends in each segment
SegmentDurations(bp, T) == [j \in 1..Len(T) |-> DiffRow(MinRow(bp, T[j]))]

\* lambdas_ of _cumulative_hazard: segment i, row j -> exp(-X[j] . params[slice i]).
\* A rate is kept as the term it is computed from: the row and the coefficients.
Lambdas(obj, lookup, params, X) ==
    [i \in 1..obj.n_breakpoints |->
        [j \in 1..Len(X) |-> [x |-> X[j], beta |-> Slice(params, lookup[i - 1])]]]

\* M * lambdas_.T: entry (j, i) is the pair (time in segment i, rate of segment i)
CumulativeHazard(obj, lookup, params, T, X) ==
    LET M == SegmentDurations(obj.breakpoints, T)
        lambdas_ == Lambdas(obj, lookup, params, X)
    IN  [j \in 1..Len(T) |->
            [i \in 1..obj.n_breakpoints |-> [m |-> M[j][i], rate |-> lambdas_[i][j]]]]

\* d min(b, t) / dt as autograd differentiates np.minimum, in halves:
\* 1 where t is the smaller argument, 1/2 at a tie, 0 where b is smaller
GradMinimum2(b, t) == IF t < b THEN 2 ELSE IF t = b THEN 1 ELSE 0

\* egrad(_cumulative_hazard, argnum=1): for each row j the derivative in T[j] of
\* sum_i M[j][i] * rate_i; entry (j, i) is the pair (dM[j][i]/dT in halves, rate_i)
Hazard2(obj, lookup, params, T, X) ==
    LET bp == obj.breakpoints
        lambdas_ == Lambdas(obj, lookup, params, X)
        dM(j) == DiffRow([i \in 1..Len(bp) |-> GradMinimum2(bp[i], T[j])])
    IN  [j \in 1..Len(T) |->
            [i \in 1..obj.n_breakpoints |-> [m |-> dM(j)[i], rate |-> lambdas_[i][j]]]]

----------------------------------------------------------------------------
(* Tables *)


\* A dataset handed to fit: n rows, the duration column "T", the event column
\* "E", the weight column "w" (PyNone when the table has none) and the names of
\* its covariate columns
Dataset(T, E, w, cov) == [n |-> Len(T), T |-> T, E |-> E, w |-> w, cov |-> cov]

\* A table of covariates: column names, row labels, the columns that are 1.0
CovTable(columns, index, ones) == [columns |-> columns, index |-> index, ones |-> ones]

\* df["_intercept"] = 1.0: sets the column, appending it when it is new
SetIntercept(X) ==
    [X EXCEPT !.columns = IF "_intercept" \in Range(@) THEN @
                          ELSE Append(@, "_intercept"),
              !.ones = @ \cup {"_intercept"}]

\* np.unique: the distinct values, sorted
RECURSIVE Dedup(_)
Dedup(s) ==
    IF Len(s) <= 1 THEN s
    ELSE IF s[1] = s[2] THEN Dedup(Tail(s))
    ELSE <<s[1]>> \o Dedup(Tail(s))

Unique(s) == Dedup(Sort(s))

\* np.percentile(T, 75), linear interpolation between the order statistics
Percentile75(T) ==
    LET sorted == Sort(T)
        pos4 == 3 * (Len(T) - 1)
        lo == pos4 \div 4
        r == pos4 % 4
    IN  IF r = 0 THEN sorted[lo + 1]
        ELSE sorted[lo + 1] + (r * (sorted[lo + 2] - sorted[lo + 1])) \div 4

\* coalesce: the first argument that is not None
Coalesce(a, b, c) == IF a # PyNone THEN a ELSE IF b # PyNone THEN b ELSE c

\* the MultiIndex of params_ and _norm_std: (name, c) for name in names, c in columns
RECURSIVE ParamIndex(_, _)
ParamIndex(names, columns) ==
    IF Len(names) = 0 THEN <<>>
    ELSE [c \in 1..Len(columns) |-> <<names[1], columns[c]>>]
         \o ParamIndex(Tail(names), columns)

\* params_["lambda_%d_" % i]: the entries of segment i, by label
RECURSIVE SelectSegment(_, _, _)
SelectSegment(index, i, p) ==
    IF p > Len(index) THEN <<>>
    ELSE (IF index[p][1] = i THEN <<[pos |-> p, column |-> index[p][2]]>> ELSE <<>>)
         \o SelectSegment(index, i, p + 1)

ParamsOfSegment(params, i) == SelectSegment(params.index, i, 1)

----------------------------------------------------------------------------
(* predict_cumulative_hazard *)

\* M of predict_cumulative_hazard
PredSegmentDurations(bp, times) ==
    [j \in 1..Len(times) |->
        [i \in 1..Len(bp) |->
            IF i = 1 THEN Min(bp[1], times[j])
            ELSE Min(bp[i], times[j]) - Min(bp[i - 1], times[j])]]

\* _prep_inputs_for_prediction_and_return_parameters, X a DataFrame.
\* lambdas[i][s] is exp(X[s] . params_["lambda_i_"]), kept as the term (row, coefficients)
PrepInputsForPrediction(obj, X) ==
    LET params == obj.params_[1]
        wanted == [c \in 1..Len(ParamsOfSegment(params, 0)) |->
                      ParamsOfSegment(params, 0)[c].column]
    IN  IF \E c \in Range(wanted) : c \notin Range(X.columns)
        THEN [exc |-> "KeyError", X |-> X, lambdas |-> <<>>]
        ELSE LET X1 == CovTable(wanted, X.index, X.ones \cap Range(wanted))
                 X2 == IF obj.fit_intercept THEN SetIntercept(X1) ELSE X1
             IN  [exc |-> "", X |-> X2,
                  lambdas |-> [i \in 1..obj.n_breakpoints |->
                                 [s \in 1..Len(X2.index) |->
                                    [x |-> X2.index[s],
                                     beta |-> ParamsOfSegment(params, i - 1)]]]]

\* The table returned: row j is times[j], column s is subject X.index[s], and the
\* entry is sum_i M[j][i] / lambdas[i][s], the coefficients read in params
PredictCumulativeHazard(obj, X, times) ==
    LET t == Coalesce(times, obj.timeline[1], Unique(obj.durations[1]))
        prep == PrepInputsForPrediction(obj, X)
    IN  IF prep.exc # "" THEN [exc |-> prep.exc, ret |-> <<>>]
        ELSE [exc |-> "",
              ret |-> [index |-> t, columns |-> X.index, X |-> prep.X,
                       M |-> PredSegmentDurations(obj.breakpoints, t),
                       lambdas |-> prep.lambdas,
                       params |-> obj.params_[1].values]]

----------------------------------------------------------------------------
(* predict_survival_function, predict_percentile *)

\* Survival levels are quarters: level l is the probability l / 4
LevelVals == 0..4

\* -log(l / 4) in hundredths: the cumulative hazard at which survival is l / 4.
\* Survival never is 0: its hazard is above every hazard of the model.
NegLog100(l) ==
    CASE l = 0 -> Inf [] l = 1 -> 139 [] l = 2 -> 69 [] l = 3 -> 29 [] l = 4 -> 0

\* predict_survival_function: exp(-predict_cumulative_hazard(X, times)).  rates
\* gives the numbers the terms stand for: rates[i][s] is 1 / lambdas_[i][s] in
\* hundredths per tick.  A survival exp(-H) is kept as H, in hundredths.
PredictSurvivalFunction(obj, X, times, rates) ==
    LET ch == PredictCumulativeHazard(obj, X, times)
    IN  IF ch.exc # "" THEN [exc |-> ch.exc, index |-> <<>>, columns |-> <<>>, H |-> <<>>]
        ELSE [exc |-> "", index |-> ch.ret.index, columns |-> ch.ret.columns,
              H |-> [j \in 1..Len(ch.ret.index) |->
                       [s \in 1..Len(ch.ret.columns) |->
                          Sum([i \in 1..obj.n_breakpoints |->
                                  ch.ret.M[j][i] * rates[i][s]])]]]

\* lifelines.utils.qth_survival_times(q, survival_functions), q = l / 4: for each
\* column the first time of the index at which survival is <= q, np.inf when it
\* never is
QthSurvivalTimes(l, sf) ==
    [s \in 1..Len(sf.columns) |->
        LET reached == {j \in 1..Len(sf.index) : sf.H[j][s] >= NegLog100(l)}
        IN  IF reached = {} THEN Inf
            ELSE sf.index[CHOOSE j \in reached : \A h \in reached : j <= h]]

\* predict_percentile(X, p), p = l / 4
PredictPercentile(obj, X, l, rates) ==
    CHOOSE r \in {IF sf.exc # "" THEN [exc |-> sf.exc, sf |-> sf, ret |-> <<>>]
                  ELSE [exc |-> "", sf |-> sf, ret |-> QthSurvivalTimes(l, sf)] :
                     sf \in {PredictSurvivalFunction(obj, X, PyNone, rates)}} : TRUE

----------------------------------------------------------------------------
(* fit *)

\* What an outside library answers during one fit: whether scipy's minimize
\* reports success, and whether np.linalg.inv finds the Hessian singular
Oracles ==
    {[success |-> FALSE, singular |-> FALSE]} \cup [success : {TRUE}, singular : BOOLEAN]

\* What the libraries were asked in a call: nothing when minimize never ran
Asked(oracle, n_minimize) ==
    IF n_minimize = 0 THEN [success |-> FALSE, singular |-> FALSE] ELSE oracle

\* The result of a call that raised
Raised(obj, exc, warnings, n_minimize) ==
    [obj |-> obj, exc |-> exc, warnings |-> warnings, n_minimize |-> n_minimize]

\* The same checks letting zero through
Negative(v) == v < 0

\* (weights <= 0).any(), np.any(self.durations <= 0): one element
NonPositive(v) == v <= 0

\* weights.astype(int) != weights, weights in halves
NotInteger(w2) == 2 * (w2 \div 2) # w2

\* a block of consecutive positions taken for the stride: params[i * k : (i + 1) * k]
StridedPositionsBlock(i, step, n) ==
    [s \in 1..(n \div step) |-> i * (n \div step) + s - 1]

\* the positions, from 0, that x[i :: step] takes in a vector x of n entries
StridedPositions(i, step, n) ==
    [s \in 1..((n - i + step - 1) \div step) |-> i + (s - 1) * step]

\* np.var of x, times Len(x) squared
Var2(x) == Len(x) * Sum([j \in 1..Len(x) |-> x[j] * x[j]]) - Sum(x) * Sum(x)

\* coef_penalty of _negative_log_likelihood: for each column i of X the variance
\* of params[i :: X.shape[1]], kept with the positions it is taken over; <<>>
\* when the penalizer is 0 and the loop does not run
CoefPenalty(obj, params, size_of_X) ==
    IF obj.penalizer > 0
    THEN [c \in 1..size_of_X |->
            LET pos == StridedPositions(c - 1, size_of_X, Len(params))
            IN  [positions |-> pos,
                 var |-> Var2([s \in 1..Len(pos) |-> params[pos[s] + 1]])]]
    ELSE <<>>

\* The objective minimize is handed: _negative_log_likelihood on (T, E, weights, X)
Objective(obj, T, E, weights, X) ==
    [T |-> T, E |-> E, W |-> weights, X |-> X,
     breakpoints |-> obj.breakpoints, penalizer |-> obj.penalizer]

\* _fit_model calling minimize a second time, from the point the first one
\* stopped at, when the first one fails
FitModelRetrying(obj, T, E, weights, X, initial_point, oracle) ==
    LET x0 == IF initial_point = PyNone
              THEN [p \in 1..(Len(X) * obj.n_breakpoints) |-> 0]
              ELSE initial_point
        objective == Objective(obj, T, E, weights, X)
    IN  [exc |-> "", n_minimize |-> IF oracle.success THEN 1 ELSE 2,
         x |-> [argmin |-> objective, size |-> Len(x0)],
         log_likelihood |-> [max |-> objective],
         hessian |-> [at |-> objective, singular |-> oracle.singular]]

\* _fit_model: one call of minimize, then the Hessian, or ConvergenceError
FitModel(obj, T, E, weights, X, initial_point, oracle) ==
    LET x0 == IF initial_point = PyNone
              THEN [p \in 1..(Len(X) * obj.n_breakpoints) |-> 0]
              ELSE initial_point
        objective == Objective(obj, T, E, weights, X)
    IN  IF oracle.success
        THEN [exc |-> "", n_minimize |-> 1,
              x |-> [argmin |-> objective, size |-> Len(x0)],
              log_likelihood |-> [max |-> objective],
              hessian |-> [at |-> objective, singular |-> oracle.singular]]
        ELSE [exc |-> "ConvergenceError", n_minimize |-> 1,
              x |-> <<>>, log_likelihood |-> <<>>, hessian |-> <<>>]

\* _compute_variance_matrix without the except clause: LinAlgError leaves it
ComputeVarianceMatrixNoFallback(obj) ==
    IF obj.hessian_[1].singular
    THEN [exc |-> "LinAlgError", value |-> <<>>, warnings |-> {}]
    ELSE [exc |-> "", value |-> [inverse |-> "inv", of |-> obj.hessian_[1].at],
          warnings |-> {}]

\* _compute_variance_matrix: inv, or pinv and a warning when inv raises LinAlgError
ComputeVarianceMatrix(obj) ==
    IF obj.hessian_[1].singular
    THEN [exc |-> "", value |-> [inverse |-> "pinv", of |-> obj.hessian_[1].at],
          warnings |-> {"StatisticalWarning: hessian not invertible"}]
    ELSE [exc |-> "", value |-> [inverse |-> "inv", of |-> obj.hessian_[1].at],
          warnings |-> {}]

\* _compute_standard_errors
ComputeStandardErrors(obj) ==
    IF obj.robust[1]
    THEN [kind |-> "sandwich", of |-> obj.variance_matrix_[1]]
    ELSE [kind |-> "naive", of |-> obj.variance_matrix_[1]]

\* _compute_confidence_intervals
ComputeConfidenceIntervals(obj) ==
    [se |-> obj.standard_errors_[1], params |-> obj.params_[1].values]

Fit(obj, a, oracle) ==
    IF a.duration_col = "None" THEN Raised(obj, "TypeError", {}, 0)
    ELSE
    LET df == a.df
        o1 == [obj EXCEPT !.duration_col = <<a.duration_col>>,
                          !.event_col = <<a.event_col>>,
                          !.weights_col = <<a.weights_col>>,
                          !.n_examples = <<df.n>>,
                          !.timeline = <<a.timeline>>,
                          !.robust = <<a.robust>>]
        T == df.T
        E == IF a.event_col # "None" THEN df.E ELSE [j \in 1..df.n |-> TRUE]
        weights == IF a.weights_col # "None" THEN df.w ELSE [j \in 1..df.n |-> 2]
        \* the columns left in df once the three columns are popped
        left == (IF a.event_col = "None" THEN <<"E">> ELSE <<>>)
                \o (IF a.weights_col = "None" /\ df.w # PyNone THEN <<"w">> ELSE <<>>)
                \o df.cov
        warn1 == IF /\ a.weights_col # "None"
                    /\ \E j \in 1..df.n : NotInteger(weights[j])
                    /\ ~a.robust
                 THEN {"StatisticalWarning: weights are not integers"}
                 ELSE {}
    IN  IF a.weights_col # "None" /\ \E j \in 1..df.n : NonPositive(weights[j])
        THEN Raised(o1, "ValueError", warn1, 0)
        ELSE
        LET o2 == [o1 EXCEPT !.durations = <<T>>,
                             !.event_observed = <<E>>,
                             !.weights = <<weights>>]
        IN  IF \E j \in 1..df.n : NonPositive(T[j])
            THEN Raised(o2, "ValueError", warn1, 0)
            ELSE
            LET X == IF obj.fit_intercept
                     THEN SetIntercept(CovTable(left, [j \in 1..df.n |-> j], {}))
                     ELSE CovTable(left, [j \in 1..df.n |-> j], {})
                index == ParamIndex(obj.fitted_parameter_names, X.columns)
                o3 == [o2 EXCEPT !.LOOKUP_SLICE = <<CreateSlicer(obj, Len(X.columns))>>,
                                 !.norm_mean = <<[columns |-> X.columns]>>,
                                 !.norm_std = <<[index |-> index]>>]
                fm == FitModel(o3, T, E, weights, X.columns, a.initial_point, oracle)
            IN  IF fm.exc # ""
                THEN Raised(o3, fm.exc, warn1, fm.n_minimize)
                ELSE
                LET o4 == [o3 EXCEPT !.log_likelihood = <<fm.log_likelihood>>,
                                     !.hessian_ = <<fm.hessian>>,
                                     !.params_ = <<[index |-> index, values |-> fm.x]>>]
                    vm == ComputeVarianceMatrix(o4)
                    \* an exception of _compute_variance_matrix would leave fit here
                    o5 == [o4 EXCEPT !.variance_matrix_ = <<vm.value>>]
                    o6 == [o5 EXCEPT !.standard_errors_ = <<ComputeStandardErrors(o5)>>]
                    o7 == [o6 EXCEPT !.confidence_intervals_ =
                                         <<ComputeConfidenceIntervals(o6)>>]
                    pch == PredictCumulativeHazard(o7, X, <<Percentile75(T)>>)
                    o8 == [o7 EXCEPT !.predicted_cumulative_hazard_ = <<pch.ret>>]
                IN  IF vm.exc # ""
                    THEN Raised(o4, vm.exc, warn1 \cup vm.warnings, fm.n_minimize)
                    ELSE [obj |-> o8, exc |-> "", warnings |-> warn1 \cup vm.warnings,
                          n_minimize |-> fm.n_minimize]

----------------------------------------------------------------------------
(* _ll_null, _compute_likelihood_ratio_test *)

FitArgs(df, duration_col, event_col, weights_col, timeline, robust, initial_point) ==
    [df |-> df, duration_col |-> duration_col, event_col |-> event_col,
     weights_col |-> weights_col, timeline |-> timeline, robust |-> robust,
     initial_point |-> initial_point]

\* A null model built without breakpoints
NullModelSingleSegment(obj) == NewFitter(<<>>, obj.penalizer, TRUE)

\* The model _ll_null builds: self.__class__(breakpoints=self.breakpoints[:-1],
\* penalizer=self.penalizer, fit_intercept=True)
NullModel(obj) ==
    NewFitter(SubSeq(obj.breakpoints, 1, Len(obj.breakpoints) - 1), obj.penalizer, TRUE)

\* The fit _ll_null runs on it: .fit(DataFrame({"T": durations, "E": event_observed}),
\* "T", "E", initial_point=zeros(len(_fitted_parameter_names)))
NullFitArgs(obj) ==
    FitArgs(Dataset(obj.durations[1], obj.event_observed[1], PyNone, <<>>),
            "T", "E", "None", PyNone, FALSE,
            [p \in 1..Len(obj.fitted_parameter_names) |-> 0])

\* What _ll_null does with the null model as made and as fitted
LlNullResult(obj, made, fitted) ==
    IF made.exc # ""
    THEN [obj |-> obj, exc |-> made.exc, ret |-> Absent, refit |-> FALSE,
          null |-> NoFitter, n_minimize |-> 0]
    ELSE IF fitted.exc # ""
    THEN [obj |-> obj, exc |-> fitted.exc, ret |-> Absent, refit |-> TRUE,
          null |-> fitted.obj, n_minimize |-> fitted.n_minimize]
    ELSE [obj |-> [obj EXCEPT !.ll_null_ = fitted.obj.log_likelihood],
          exc |-> "", ret |-> fitted.obj.log_likelihood, refit |-> TRUE,
          null |-> fitted.obj, n_minimize |-> fitted.n_minimize]

\* The property _ll_null.  refit tells whether this access ran the null fit;
\* null is the null model as that fit left it.
LlNull(obj, oracle) ==
    IF HasAttr(obj.ll_null_)
    THEN [obj |-> obj, exc |-> "", ret |-> obj.ll_null_, refit |-> FALSE,
          null |-> NoFitter, n_minimize |-> 0]
    ELSE IF ~HasAttr(obj.durations)
    THEN [obj |-> obj, exc |-> "AttributeError", ret |-> Absent, refit |-> FALSE,
          null |-> NoFitter, n_minimize |-> 0]
    ELSE CHOOSE r \in {LlNullResult(obj, x[1], x[2]) :
                          x \in {<<made, Fit(made.obj, NullFitArgs(obj), oracle)>> :
                                    made \in {NullModel(obj)}}} : TRUE

\* degrees_freedom = self.params_.shape[0] - 2
DegreesFreedom(obj) == Len(obj.params_[1].index) - 2

\* What _compute_likelihood_ratio_test does once _ll_null has answered n
LikelihoodRatioTestResult(obj, n) ==
    IF n.exc # "" THEN n @@ [degrees_freedom |-> -1, test_stat |-> <<>>]
    ELSE IF ~HasAttr(obj.log_likelihood)
    THEN [n EXCEPT !.exc = "AttributeError"]
         @@ [degrees_freedom |-> -1, test_stat |-> <<>>]
    ELSE n @@ [degrees_freedom |-> DegreesFreedom(n.obj),
               test_stat |-> <<[ll_alt |-> n.obj.log_likelihood[1],
                                ll_null |-> n.ret[1]]>>]

\* _compute_likelihood_ratio_test: (test_stat, degrees_freedom, -log2(p))
ComputeLikelihoodRatioTest(obj, oracle) ==
    CHOOSE r \in {LikelihoodRatioTestResult(obj, n) : n \in {LlNull(obj, oracle)}} : TRUE

----------------------------------------------------------------------------
(* score_ *)

\* concordance_index(durations, -predicted, event_observed), kept as its arguments
Concordance(durations, predicted, event_observed) ==
    [durations |-> durations, predicted |-> predicted,
     event_observed |-> event_observed]

\* score_ returning the stored score whenever there is one
ScoreStoredFirst(obj) ==
    IF HasAttr(obj.concordance_score_)
    THEN [obj |-> obj, exc |-> "", ret |-> obj.concordance_score_, computed |-> FALSE]
    ELSE IF HasAttr(obj.predicted_cumulative_hazard_)
    THEN [obj |-> [obj EXCEPT !.concordance_score_ =
                                  <<Concordance(obj.durations[1],
                                                obj.predicted_cumulative_hazard_[1],
                                                obj.event_observed[1])>>,
                              !.predicted_cumulative_hazard_ = Absent],
          exc |-> "",
          ret |-> <<Concordance(obj.durations[1], obj.predicted_cumulative_hazard_[1],
                                obj.event_observed[1])>>,
          computed |-> TRUE]
    ELSE [obj |-> obj, exc |-> "AttributeError", ret |-> Absent, computed |-> FALSE]

\* The property score_: computes the score when the fit's prediction is there, and
\* deletes the prediction; returns the stored score otherwise
Score(obj) ==
    IF HasAttr(obj.predicted_cumulative_hazard_)
    THEN [obj |-> [obj EXCEPT !.concordance_score_ =
                                  <<Concordance(obj.durations[1],
                                                obj.predicted_cumulative_hazard_[1],
                                                obj.event_observed[1])>>,
                              !.predicted_cumulative_hazard_ = Absent],
          exc |-> "",
          ret |-> <<Concordance(obj.durations[1], obj.predicted_cumulative_hazard_[1],
                                obj.event_observed[1])>>,
          computed |-> TRUE]
    ELSE IF HasAttr(obj.concordance_score_)
    THEN [obj |-> obj, exc |-> "", ret |-> obj.concordance_score_, computed |-> FALSE]
    ELSE [obj |-> obj, exc |-> "AttributeError", ret |-> Absent, computed |-> FALSE]

----------------------------------------------------------------------------
(* Inputs *)

\* breakpoints handed to __init__: in any order, negative, repeated, infinite
BreakVals == {-Step, Inf} \cup {Step * i : i \in 0..MaxBp}
BreakArgs == SeqsOf(BreakVals, 0, MaxBreaks)

Penalizers == 0..MaxPenalizer

\* the fitters __init__ lets through
Fitters ==
    {NewFitter(b, pen, fi).obj :
        <<b, pen, fi>> \in {x \in BreakArgs \X Penalizers \X BOOLEAN :
                              NewFitter(x[1], x[2], x[3]).exc = ""}}

CovNames == <<"x1", "x2", "x3">>
CovSets == {SubSeq(CovNames, 1, c) : c \in 0..MaxCov}

DurationVals == {Step * t : t \in 0..MaxT}

\* the datasets of n rows
Datasets(n) ==
    {Dataset(T, E, w, cov) :
        T \in [1..n -> DurationVals], E \in [1..n -> BOOLEAN],
        w \in {PyNone} \cup [1..n -> 0..MaxW2], cov \in CovSets}

\* the fit calls tried on tables of n rows: the weight column is named when the
\* table has one; and one call without a duration column
FitInputs(n) ==
    {FitArgs(Dataset([j \in 1..n |-> Step], [j \in 1..n |-> TRUE], PyNone, <<>>),
             "None", "E", "None", PyNone, FALSE, PyNone)}
    \cup
    {FitArgs(df, "T", "E", IF df.w = PyNone THEN "None" ELSE "w", PyNone, robust, PyNone) :
        df \in Datasets(n), robust \in BOOLEAN}

\* The fitters and fit calls followed through several calls: increasing
\* breakpoints; one covariate column; the first rows censored, or none; every
\* row weighted 0.5 and robust errors asked for, or no weight column
LifeFitters ==
    {NewFitter([i \in 1..n |-> Step * i], pen, fi).obj :
        n \in 0..MaxLifeBreaks, pen \in Penalizers, fi \in BOOLEAN}

LifeDatasets(n) ==
    {Dataset(T, [j \in 1..n |-> j > c], w, SubSeq(CovNames, 1, 1)) :
        T \in [1..n -> DurationVals], c \in 0..MaxCensored,
        w \in {PyNone, [j \in 1..n |-> 1]}}

LifeFitInputs ==
    {FitArgs(df, "T", "E", IF df.w = PyNone THEN "None" ELSE "w", PyNone,
             df.w # PyNone, PyNone) :
        df \in LifeDatasets(MaxBatch)}

\* A design matrix has a column at least: the intercept, or a covariate
HasColumns(obj, df) == obj.fit_intercept \/ Len(df.cov) > 0

----------------------------------------------------------------------------
(* The fitter's life: fit, _ll_null, _compute_likelihood_ratio_test *)

Init ==
    /\ self \in LifeFitters
    /\ call = [op |-> "__init__", exc |-> ""]
    /\ fits = 0

FitCall ==
    /\ fits < MaxFits
    /\ \E a \in LifeFitInputs, oracle \in Oracles :
          \E r \in {Fit(self, a, oracle)} :
              /\ self' = r.obj
              /\ call' = [op |-> "fit", exc |-> r.exc, args |-> a,
                          oracle |-> Asked(oracle, r.n_minimize),
                          warnings |-> r.warnings, n_minimize |-> r.n_minimize]
    /\ fits' = fits + 1

LlNullAccess ==
    /\ \E oracle \in Oracles :
          \E r \in {LlNull(self, oracle)} :
              /\ self' = r.obj
              /\ call' = [op |-> "_ll_null", exc |-> r.exc, ret |-> r.ret,
                          refit |-> r.refit, null |-> r.null,
                          n_minimize |-> r.n_minimize]
    /\ UNCHANGED fits

LikelihoodRatioTestCall ==
    /\ \E oracle \in Oracles :
          \E r \in {ComputeLikelihoodRatioTest(self, oracle)} :
              /\ self' = r.obj
              /\ call' = [op |-> "_compute_likelihood_ratio_test", exc |-> r.exc,
                          ret |-> r.ret, refit |-> r.refit, null |-> r.null,
                          n_minimize |-> r.n_minimize,
                          degrees_freedom |-> r.degrees_freedom,
                          test_stat |-> r.test_stat]
    /\ UNCHANGED fits

Next == FitCall \/ LlNullAccess \/ LikelihoodRatioTestCall

Spec == Init /\ [][Next]_vars

----------------------------------------------------------------------------
(* Successful fits and score_ accesses *)

ScoreInit ==
    /\ self \in LifeFitters
    /\ call = [op |-> "__init__", exc |-> ""]
    /\ fits = 0

\* a fit on valid data that converges
SuccessfulFitCall ==
    /\ fits < MaxFits
    /\ \E a \in {x \in LifeFitInputs : \A j \in 1..x.df.n : x.df.T[j] > 0},
          oracle \in {o \in Oracles : o.success} :
          \E r \in {Fit(self, a, oracle)} :
              /\ r.exc = ""
              /\ self' = r.obj
              /\ call' = [op |-> "fit", exc |-> r.exc, args |-> a,
                          oracle |-> Asked(oracle, r.n_minimize),
                          warnings |-> r.warnings, n_minimize |-> r.n_minimize]
    /\ fits' = fits + 1

ScoreAccess ==
    /\ \E r \in {Score(self)} :
          /\ self' = r.obj
          /\ call' = [op |-> "score_", exc |-> r.exc, ret |-> r.ret,
                      computed |-> r.computed]
    /\ UNCHANGED fits

ScoreNext == SuccessfulFitCall \/ ScoreAccess

SpecScore == ScoreInit /\ [][ScoreNext]_vars

----------------------------------------------------------------------------
(* Construction alone *)

CtorInit ==
    /\ self = NoFitter
    /\ call = [op |-> "none", exc |-> ""]
    /\ fits = 0

Construct ==
    /\ call.op = "none"
    /\ \E b \in BreakArgs, pen \in Penalizers, fi \in BOOLEAN :
          \E r \in {NewFitter(b, pen, fi)} :
              /\ self' = IF r.exc = "" THEN r.obj ELSE self
              /\ call' = [op |-> "__init__", exc |-> r.exc, msg |-> r.msg,
                          breakpoints |-> b, penalizer |-> pen,
                          fit_intercept |-> fi, obj |-> r.obj]
    /\ UNCHANGED fits

CtorNext == Construct

SpecCtor == CtorInit /\ [][CtorNext]_vars

----------------------------------------------------------------------------
(* One fit call, on any dataset *)

FitInit ==
    /\ self \in Fitters
    /\ call = [op |-> "__init__", exc |-> ""]
    /\ fits = 0

FitOnce ==
    /\ fits = 0
    /\ \E n \in 1..MaxBatch, oracle \in Oracles :
          \E a \in {x \in FitInputs(n) : HasColumns(self, x.df)} :
          \E r \in {Fit(self, a, oracle)} :
              /\ self' = r.obj
              /\ call' = [op |-> "fit", exc |-> r.exc, args |-> a,
                          oracle |-> Asked(oracle, r.n_minimize),
                          warnings |-> r.warnings, n_minimize |-> r.n_minimize]
    /\ fits' = 1

FitNext == FitOnce

SpecFit == FitInit /\ [][FitNext]_vars

----------------------------------------------------------------------------
(* The hazard functions and the prediction, each applied once to a fitted model *)

\* times in ticks, up to one past the last finite breakpoint
TimeVals == 0..(Step * MaxBp + 1)
TimeBatches == SeqsOf(TimeVals, 1, MaxBatch)

\* a candidate parameter vector: coefficient p is named by its position p
Coefficients(obj) ==
    [p \in 1..(Len(obj.norm_mean[1].columns) * obj.n_breakpoints) |-> p]

\* the tables handed to predict_cumulative_hazard: the training covariates, with
\* or without an "_intercept" column
PredTables(obj) ==
    LET cov == SelectSeq(obj.norm_mean[1].columns, LAMBDA c : c # "_intercept")
    IN  {CovTable(cov, [s \in 1..n |-> s], {}) : n \in 1..MaxBatch}
        \cup {SetIntercept(CovTable(cov, [s \in 1..n |-> s], {})) : n \in 1..MaxBatch}

HazInit ==
    /\ self \in {Fit(x[1], FitArgs(Dataset(<<Step>>, <<TRUE>>, PyNone, x[2]),
                                  "T", "E", "None", PyNone, FALSE, PyNone),
                       [success |-> TRUE, singular |-> FALSE]).obj :
                    x \in {y \in Fitters \X CovSets : y[1].fit_intercept \/ Len(y[2]) > 0}}
    /\ call = [op |-> "fit", exc |-> ""]
    /\ fits = 1

CumulativeHazardCall ==
    /\ call.op = "fit"
    /\ \E T \in TimeBatches :
          call' = [op |-> "_cumulative_hazard", exc |-> "", T |-> T,
                   ret |-> CumulativeHazard(self, self.LOOKUP_SLICE[1], Coefficients(self),
                                            T, [j \in 1..Len(T) |-> j])]
    /\ UNCHANGED <<self, fits>>

HazardCall ==
    /\ call.op = "fit"
    /\ \E T \in TimeBatches :
          call' = [op |-> "_hazard", exc |-> "", T |-> T,
                   ret |-> Hazard2(self, self.LOOKUP_SLICE[1], Coefficients(self),
                                   T, [j \in 1..Len(T) |-> j])]
    /\ UNCHANGED <<self, fits>>

PredictCall ==
    /\ call.op = "fit"
    /\ \E times \in TimeBatches \cup {PyNone}, X \in PredTables(self) :
          \E r \in {PredictCumulativeHazard(self, X, times)} :
              call' = [op |-> "predict_cumulative_hazard", exc |-> r.exc,
                       times |-> times, X |-> X, ret |-> r.ret]
    /\ UNCHANGED <<self, fits>>

\* the penalty of the objective at a numeric parameter vector
CoefPenaltyCall ==
    /\ call.op = "fit"
    /\ \E params \in [1..(Len(self.norm_mean[1].columns) * self.n_breakpoints)
                         -> 0..MaxCoef] :
          call' = [op |-> "coef_penalty", exc |-> "", params |-> params,
                   ret |-> CoefPenalty(self, params, Len(self.norm_mean[1].columns))]
    /\ UNCHANGED <<self, fits>>

HazNext == CumulativeHazardCall \/ HazardCall \/ PredictCall \/ CoefPenaltyCall

SpecHaz == HazInit /\ [][HazNext]_vars

----------------------------------------------------------------------------
(* predict_percentile, applied once to a fitted model *)

\* the values 1 / lambdas_ takes, in hundredths per tick
RateVals == {2, 10, 40}

\* fitters fitted on two rows of unequal durations: their timeline has two times
PctInit ==
    /\ self \in {Fit(f, FitArgs(Dataset(<<Step, 2 * Step>>, <<TRUE, TRUE>>, PyNone,
                                        SubSeq(CovNames, 1, 1)),
                                "T", "E", "None", PyNone, FALSE, PyNone),
                     [success |-> TRUE, singular |-> FALSE]).obj : f \in LifeFitters}
    /\ call = [op |-> "fit", exc |-> ""]
    /\ fits = 1

PredictPercentileCall ==
    /\ call.op = "fit"
    /\ \E X \in PredTables(self), l \in LevelVals :
       \E rates \in [1..self.n_breakpoints -> [1..Len(X.index) -> RateVals]] :
       \E r \in {PredictPercentile(self, X, l, rates)} :
          call' = [op |-> "predict_percentile", exc |-> r.exc, X |-> X, p4 |-> l,
                   sf |-> r.sf, ret |-> r.ret]
    /\ UNCHANGED <<self, fits>>

PctNext == PredictPercentileCall

SpecPct == PctInit /\ [][PctNext]_vars

----------------------------------------------------------------------------
(* The minimum of _negative_log_likelihood: one segment, the intercept alone *)

\* A rate exp(-beta) is the fraction p / q
Rate(p, q) == [p |-> p, q |-> q]

\* the rates tried: every fraction a weighted count of events over a weighted sum
\* of durations can be
Rates ==
    {Rate(p, q) : p \in 1..(MaxBatch * MaxW2),
                  q \in 1..(MaxBatch * MaxW2 * MaxT * Step)}

\* the same derivative with the weights of the events forgotten: E.sum() for
\* W[E].sum()
NegativeLogLikelihoodGradUnweighted(obj, rate, T, E, W) ==
    LET M == SegmentDurations(obj.breakpoints, T)
        events == Sum([j \in 1..Len(T) |-> IF E[j] THEN 2 ELSE 0])
        exposure == Sum([j \in 1..Len(T) |-> W[j] * M[j][1]])
    IN  rate.q * events - rate.p * exposure

\* d _negative_log_likelihood / d beta at exp(-beta) = rate, for a fitter of one
\* segment and X the intercept column alone, times 2 * rate.q * W.sum() (weights
\* are in halves).  The hazard of row j is dM[j][1]/dT * rate, its logarithm
\* log(dM[j][1]/dT) - beta; the cumulative hazard is M[j][1] * exp(-beta); the
\* penalty is the variance of one coefficient, 0 whatever beta.
NegativeLogLikelihoodGrad(obj, rate, T, E, W) ==
    LET M == SegmentDurations(obj.breakpoints, T)
        dM == [j \in 1..Len(T) |-> GradMinimum2(obj.breakpoints[1], T[j])]
        events == Sum([j \in 1..Len(T) |-> IF E[j] /\ dM[j] > 0 THEN W[j] ELSE 0])
        exposure == Sum([j \in 1..Len(T) |-> W[j] * M[j][1]])
    IN  rate.q * events - rate.p * exposure

\* minimize(value_and_grad(_negative_log_likelihood), jac=True): it succeeds at a
\* point where the gradient it is handed vanishes, the one minimum of the convex
\* objective, and fails when there is none
Minimize(obj, T, E, W) ==
    LET stationary == {r \in Rates : NegativeLogLikelihoodGrad(obj, r, T, E, W) = 0}
    IN  IF stationary = {}
        THEN {[success |-> FALSE, rate |-> Rate(0, 1)]}
        ELSE {[success |-> TRUE, rate |-> r] : r \in stationary}

\* the data of the fits: positive durations, positive weights or none
MLEDatasets ==
    UNION {{Dataset(T, E, w, <<>>) :
               T \in [1..n -> DurationVals \ {0}], E \in [1..n -> BOOLEAN],
               w \in {PyNone} \cup [1..n -> 1..MaxW2]} : n \in 1..MaxBatch}

\* fitters without breakpoints, as fit hands them to _fit_model: durations,
\* event_observed, weights and _LOOKUP_SLICE are set, nothing is fitted yet
MLEInit ==
    /\ self \in {Fit(NewFitter(<<>>, pen, TRUE).obj,
                     FitArgs(df, "T", "E", IF df.w = PyNone THEN "None" ELSE "w",
                             PyNone, TRUE, PyNone),
                     [success |-> FALSE, singular |-> FALSE]).obj :
                    pen \in Penalizers, df \in MLEDatasets}
    /\ call = [op |-> "_fit_model", exc |-> ""]
    /\ fits = 1

MinimizeCall ==
    /\ call.op = "_fit_model"
    /\ \E results \in Minimize(self, self.durations[1], self.event_observed[1],
                               self.weights[1]) :
          call' = [op |-> "minimize", exc |-> "", success |-> results.success,
                   rate |-> results.rate]
    /\ UNCHANGED <<self, fits>>

MLENext == MinimizeCall

SpecMLE == MLEInit /\ [][MLENext]_vars

----------------------------------------------------------------------------
(* C1, C2: the exposures and the hazard *)

\* e_i = min(b_i, t) - min(b_{i-1}, t), with b_{-1} = 0
ExposureFormula(bp, t, i) == Min(bp[i], t) - (IF i = 1 THEN Min(0, t) ELSE Min(bp[i - 1], t))

ExposuresPartition(bp, t, row) ==
    /\ \A i \in 1..Len(bp) : row[i] >= 0 /\ row[i] = ExposureFormula(bp, t, i)
    /\ Sum(row) = t

\* C1: for every breakpoint set a fitter holds (sorted, ended by the infinity
\* sentinel) and every time t > 0, the times spent in the segments are each >= 0,
\* are min(b_i, t) - min(b_{i-1}, t), and sum to t; and predict_cumulative_hazard
\* computes for its times the exposures _cumulative_hazard computes for the same
\* durations.
C1_ExposuresPartitionTime ==
    /\ call.op = "_cumulative_hazard" =>
          \A j \in 1..Len(call.T) :
             call.T[j] > 0 =>
                ExposuresPartition(self.breakpoints, call.T[j],
                                   [i \in 1..self.n_breakpoints |-> call.ret[j][i].m])
    /\ (call.op = "predict_cumulative_hazard" /\ call.exc = "") =>
          /\ \A j \in 1..Len(call.ret.index) :
                call.ret.index[j] > 0 =>
                   ExposuresPartition(self.breakpoints, call.ret.index[j], call.ret.M[j])
          /\ call.ret.M = SegmentDurations(self.breakpoints, call.ret.index)

\* C1's case: a prediction at a time past the first of several breakpoints, so
\* that two segments at least hold a part of it
C1_Witness ==
    /\ call.op = "predict_cumulative_hazard"
    /\ call.exc = ""
    /\ self.n_breakpoints >= 3
    /\ \E j \in 1..Len(call.ret.index) :
          /\ call.ret.index[j] > self.breakpoints[1]
          /\ call.ret.M[j][1] > 0
          /\ call.ret.M[j][2] > 0

\* the segment holding t when the hazard is right-continuous: the first whose
\* upper boundary is above t
SegmentOf(bp, t) == CHOOSE i \in 1..Len(bp) : t < bp[i] /\ \A h \in 1..(i - 1) : ~(t < bp[h])

\* C2: the hazard the likelihood uses is the right-continuous step function: at
\* every t > 0 it is the rate of one segment alone, the one holding t, and at a
\* breakpoint b_i that is the segment starting at b_i.
C2_HazardIsRightContinuousStep ==
    call.op = "_hazard" =>
       \A j \in 1..Len(call.T) :
          call.T[j] > 0 =>
             \A i \in 1..self.n_breakpoints :
                call.ret[j][i].m = IF i = SegmentOf(self.breakpoints, call.T[j]) THEN 2 ELSE 0

----------------------------------------------------------------------------
(* C4: what __init__ rejects *)

HasNegative(b) == \E i \in 1..Len(b) : b[i] < 0
HasInfinite(b) == \E i \in 1..Len(b) : b[i] >= Inf
StrictlyIncreasing(b) == \A i \in 1..(Len(b) - 1) : b[i] < b[i + 1]
Occurrences(b, v) == Cardinality({i \in 1..Len(b) : b[i] = v})

\* C4 as claimed: a breakpoint sequence that is not strictly increasing, or holds
\* a negative or an infinite value, is rejected with a validation error and no
\* fitter is produced.
C4_InvalidBreakpointsRejected ==
    (/\ call.op = "__init__"
     /\ \/ ~StrictlyIncreasing(call.breakpoints)
        \/ HasNegative(call.breakpoints)
        \/ HasInfinite(call.breakpoints))
    => (call.exc = "ValueError" /\ call.obj = NoFitter /\ self = NoFitter)

\* C4 as the code has it: a negative or an infinite breakpoint is rejected with
\* ValueError and no fitter is produced; any other sequence, out of order or with
\* repeated values, is accepted, and the fitter holds it sorted, repeats kept,
\* with the infinity sentinel after it.
C4_NegativeOrInfiniteRejected ==
    call.op = "__init__" =>
       IF HasNegative(call.breakpoints) \/ HasInfinite(call.breakpoints)
       THEN call.exc = "ValueError" /\ call.obj = NoFitter /\ self = NoFitter
       ELSE /\ call.exc = ""
            /\ self = call.obj
            /\ self.n_breakpoints = Len(call.breakpoints) + 1
            /\ Len(self.breakpoints) = self.n_breakpoints
            /\ self.breakpoints[self.n_breakpoints] = Inf
            /\ \A i \in 1..(self.n_breakpoints - 1) :
                  self.breakpoints[i] <= self.breakpoints[i + 1]
            /\ \A v \in BreakVals \ {Inf} :
                  Occurrences(self.breakpoints, v) = Occurrences(call.breakpoints, v)

\* C4's case: a rejected sequence whose negative value is not the first given
C4_Witness ==
    /\ call.op = "__init__"
    /\ call.exc = "ValueError"
    /\ Len(call.breakpoints) = 2
    /\ call.breakpoints[1] >= 0
    /\ call.breakpoints[2] < 0

----------------------------------------------------------------------------
(* C5, C6, C7: what a fit call checks, and what it does with the libraries' answers *)

WeightsWarning == "StatisticalWarning: weights are not integers"
HessianWarning == "StatisticalWarning: hessian not invertible"

HasBadDuration(a) == \E j \in 1..a.df.n : a.df.T[j] <= 0
HasBadWeight(a) == a.weights_col # "None" /\ \E j \in 1..a.df.n : a.df.w[j] <= 0
HasFractionalWeight(a) == a.weights_col # "None" /\ \E j \in 1..a.df.n : a.df.w[j] % 2 = 1

\* the attributes a fit computes
Products(obj) ==
    <<obj.params_, obj.log_likelihood, obj.hessian_, obj.variance_matrix_,
      obj.standard_errors_, obj.confidence_intervals_>>

\* C5: a fit call with a duration <= 0, or with a weights column holding a weight
\* <= 0, raises ValueError before minimize is ever called; weights that are not
\* integers, without robust, only add a StatisticalWarning: when nothing else is
\* wrong with the data the call goes on to the optimizer.
C5_BadDataRaisesBeforeOptimizer ==
    (call.op = "fit" /\ call.args.duration_col # "None") =>
       /\ (HasBadDuration(call.args) \/ HasBadWeight(call.args)) =>
             /\ call.exc = "ValueError"
             /\ call.n_minimize = 0
             /\ Products(self) = <<Absent, Absent, Absent, Absent, Absent, Absent>>
       /\ (HasFractionalWeight(call.args) /\ ~call.args.robust) =>
             /\ WeightsWarning \in call.warnings
             /\ (~HasBadDuration(call.args) /\ ~HasBadWeight(call.args)) =>
                   (call.n_minimize = 1 /\ call.exc # "ValueError")

\* C5's case: a weighted fit without robust whose weights are positive and not all
\* integers, and whose durations hold a zero: the warning is there, and the error
C5_Witness ==
    /\ call.op = "fit"
    /\ call.args.weights_col = "w"
    /\ ~call.args.robust
    /\ HasFractionalWeight(call.args)
    /\ ~HasBadWeight(call.args)
    /\ \E j \in 1..call.args.df.n : call.args.df.T[j] = 0
    /\ call.exc = "ValueError"
    /\ WeightsWarning \in call.warnings

\* C6: a fit call never calls minimize twice, and calls it once when its data pass
\* the checks; when minimize reports failure the call raises ConvergenceError and
\* leaves params_, the log-likelihood, the Hessian, the variance matrix, the
\* standard errors and the confidence intervals as they were before it.
C6_OneMinimizeAndNoProductsOnFailure ==
    [][(call'.op = "fit" /\ fits' = fits + 1) =>
          /\ call'.n_minimize <= 1
          /\ (~HasBadDuration(call'.args) /\ ~HasBadWeight(call'.args)) =>
                call'.n_minimize = 1
          /\ (call'.n_minimize = 1 /\ ~call'.oracle.success) =>
                (call'.exc = "ConvergenceError" /\ Products(self') = Products(self))
          /\ call'.exc = "ConvergenceError" =>
                (call'.n_minimize = 1 /\ ~call'.oracle.success)]_vars

\* C6's case: minimize fails in the second fit of a fitter whose first fit left
\* its products
C6_Witness ==
    /\ call.op = "fit"
    /\ call.exc = "ConvergenceError"
    /\ call.n_minimize = 1
    /\ fits = 2
    /\ HasAttr(self.params_)
    /\ HasAttr(self.confidence_intervals_)

\* C7: when the Hessian of a converged fit cannot be inverted, the fit takes the
\* pseudo-inverse for the variance matrix, adds a StatisticalWarning, computes the
\* standard errors and the confidence intervals from it and returns.
C7_SingularHessianFallsBackToPinv ==
    (call.op = "fit" /\ call.n_minimize = 1 /\ call.oracle.success
        /\ call.oracle.singular) =>
       /\ call.exc = ""
       /\ HessianWarning \in call.warnings
       /\ HasAttr(self.variance_matrix_)
       /\ self.variance_matrix_[1] = [inverse |-> "pinv", of |-> self.hessian_[1].at]
       /\ HasAttr(self.standard_errors_)
       /\ self.standard_errors_[1].of = self.variance_matrix_[1]
       /\ HasAttr(self.confidence_intervals_)
       /\ self.confidence_intervals_[1].se = self.standard_errors_[1]
       /\ HasAttr(self.predicted_cumulative_hazard_)

\* C7's case: a fit with several segments and covariates whose Hessian is singular
C7_Witness ==
    /\ call.op = "fit"
    /\ call.oracle.success
    /\ call.oracle.singular
    /\ call.exc = ""
    /\ self.n_breakpoints >= 2
    /\ Len(self.norm_mean[1].columns) >= 2
    /\ self.variance_matrix_[1].inverse = "pinv"

----------------------------------------------------------------------------
(* C8, C9, C10: the null model of the likelihood-ratio test *)

\* the call ran the fit of the null model
NullRefit ==
    /\ call.op \in {"_ll_null", "_compute_likelihood_ratio_test"}
    /\ call.refit

\* the null model has the intercept for only column
InterceptOnly(null) ==
    /\ null.fit_intercept
    /\ HasAttr(null.norm_mean) => null.norm_mean[1].columns = <<"_intercept">>

\* C8 as claimed: the null model the likelihood-ratio test fits has no breakpoint
\* (one segment) and the intercept for only covariate, whatever the breakpoints of
\* the full model.
C8_NullModelHasNoBreakpoints ==
    NullRefit =>
       /\ call.null.breakpoints = <<Inf>>
       /\ call.null.n_breakpoints = 1
       /\ InterceptOnly(call.null)

\* C8 as the code has it: the null model the likelihood-ratio test fits has the
\* breakpoints (so the segments) and the penalizer of the full model, and the
\* intercept for only covariate.
C8_NullModelKeepsBreakpoints ==
    NullRefit =>
       /\ call.null.breakpoints = self.breakpoints
       /\ call.null.n_breakpoints = self.n_breakpoints
       /\ call.null.penalizer = self.penalizer
       /\ InterceptOnly(call.null)

\* C8's case: the null model of a full model with a breakpoint has been fitted
C8_Witness ==
    /\ NullRefit
    /\ call.exc = ""
    /\ self.n_breakpoints >= 2
    /\ HasAttr(call.null.params_)
    /\ call.null.n_breakpoints >= 2

\* C9: the degrees of freedom the likelihood-ratio test reports are the number of
\* parameters of the full model less the number of parameters of the null model
\* it fitted.
C9_DegreesOfFreedomIsParameterDelta ==
    (call.op = "_compute_likelihood_ratio_test" /\ call.exc = "" /\ call.refit) =>
       call.degrees_freedom =
          Len(self.params_[1].index) - Len(call.null.params_[1].index)

\* the null log-likelihood of durations T and events E for the fitter obj
NullLogLikelihoodOf(obj, T, E) ==
    Fit(NullModel(obj).obj,
        FitArgs(Dataset(T, E, PyNone, <<>>), "T", "E", "None", PyNone, FALSE,
                [p \in 1..Len(obj.fitted_parameter_names) |-> 0]),
        [success |-> TRUE, singular |-> FALSE]).obj.log_likelihood

\* C10: whatever fits and accesses came before, _ll_null returns the null
\* log-likelihood of the data of the most recent successful fit (here: when the
\* durations and events the fitter holds are those of that fit).
C10_NullLogLikelihoodFollowsLastFit ==
    (/\ call.op = "_ll_null"
     /\ call.exc = ""
     /\ HasAttr(self.log_likelihood)
     /\ self.durations[1] = self.log_likelihood[1].max.T
     /\ self.event_observed[1] = self.log_likelihood[1].max.E)
    => call.ret = NullLogLikelihoodOf(self, self.durations[1], self.event_observed[1])

----------------------------------------------------------------------------
(* C3: the closed form of the exponential rate *)

\* sum_j events_j * weights_j and sum_j durations_j * weights_j, weights in halves
WeightedEvents(obj) ==
    Sum([j \in 1..Len(obj.durations[1]) |->
            IF obj.event_observed[1][j] THEN obj.weights[1][j] ELSE 0])
WeightedDurations(obj) ==
    Sum([j \in 1..Len(obj.durations[1]) |-> obj.durations[1][j] * obj.weights[1][j]])

\* C3: without breakpoints and with the intercept for only covariate, on data with
\* positive durations, positive weights and an event at least, the optimizer
\* succeeds at a rate exp(-beta) equal to sum(events * weights) /
\* sum(durations * weights).
C3_RateIsEventsOverExposure ==
    (call.op = "minimize" /\ WeightedEvents(self) > 0) =>
       /\ call.success
       /\ call.rate.p * WeightedDurations(self) = call.rate.q * WeightedEvents(self)

\* C3's case: two rows of unequal weights and unequal durations, one of them
\* censored
C3_Witness ==
    /\ call.op = "minimize"
    /\ call.success
    /\ Len(self.durations[1]) = 2
    /\ self.durations[1][1] # self.durations[1][2]
    /\ self.weights[1][1] # self.weights[1][2]
    /\ self.event_observed[1][1]
    /\ ~self.event_observed[1][2]

----------------------------------------------------------------------------
(* C12: the slices of the parameter vector *)

\* the indices lo .. hi - 1 of slice(lo, hi)
SliceIndices(sl) == sl[1]..(sl[2] - 1)

\* C12: with d >= 1 columns and k segments the lookup a fit builds maps segment i
\* to [i * d, (i + 1) * d): the k ranges are disjoint, follow each other in
\* segment order and cover 0 .. k * d - 1, the length of the zero starting point
\* and of the fitted parameter vector.
C12_SlicesPartitionParameters ==
    (call.op = "fit" /\ HasAttr(self.LOOKUP_SLICE)) =>
       LET lookup == self.LOOKUP_SLICE[1]
           d == Len(self.norm_mean[1].columns)
           k == self.n_breakpoints
       IN  /\ d >= 1
           /\ DOMAIN lookup = 0..(k - 1)
           /\ \A i \in 0..(k - 1) : lookup[i] = <<i * d, (i + 1) * d>>
           /\ \A i, h \in 0..(k - 1) :
                 i # h => SliceIndices(lookup[i]) \cap SliceIndices(lookup[h]) = {}
           /\ UNION {SliceIndices(lookup[i]) : i \in 0..(k - 1)} = 0..(k * d - 1)
           /\ HasAttr(self.params_) =>
                 (self.params_[1].values.size = k * d
                    /\ Len(self.params_[1].index) = k * d)

\* C12's case: a converged fit with several segments and several columns
C12_Witness ==
    /\ call.op = "fit"
    /\ call.exc = ""
    /\ self.n_breakpoints >= 3
    /\ Len(self.norm_mean[1].columns) >= 2
    /\ self.LOOKUP_SLICE[1][2] = <<4, 6>>

----------------------------------------------------------------------------
(* C13: the penalty *)

\* the coefficient of column c (from 1) in segment i (from 0), by the slices
CoefficientAt(obj, params, i, c) == params[obj.LOOKUP_SLICE[1][i][1] + c]

\* C13: with penalizer > 0 the penalty has one term per column c of X, the
\* intercept included: the variance of the k coefficients the slices give column
\* c, the one at offset c of each segment block, in segment order; every term is 0
\* when the segments share their coefficients; with penalizer = 0 there is no
\* penalty term.
C13_PenaltyIsVarianceAcrossSegments ==
    call.op = "coef_penalty" =>
       LET d == Len(self.norm_mean[1].columns)
           k == self.n_breakpoints
           coef(c) == [s \in 1..k |-> CoefficientAt(self, call.params, s - 1, c)]
       IN  IF self.penalizer = 0 THEN call.ret = <<>>
           ELSE /\ Len(call.ret) = d
                /\ \A c \in 1..d :
                      /\ call.ret[c].positions =
                            [s \in 1..k |-> self.LOOKUP_SLICE[1][s - 1][1] + c - 1]
                      /\ k * call.ret[c].var =
                            Sum([s \in 1..k |->
                                    (k * coef(c)[s] - Sum(coef(c)))
                                    * (k * coef(c)[s] - Sum(coef(c)))])
                      /\ (\A s \in 1..k : coef(c)[s] = coef(c)[1]) => call.ret[c].var = 0

\* C13's case: a penalized model of several segments and columns whose segments
\* differ in the last column alone
C13_Witness ==
    /\ call.op = "coef_penalty"
    /\ self.penalizer > 0
    /\ self.n_breakpoints >= 2
    /\ Len(call.ret) = 2
    /\ call.ret[1].var = 0
    /\ call.ret[2].var > 0

----------------------------------------------------------------------------
(* C11: predict_percentile *)

\* the first time of the timeline at which the survival of subject s is at or
\* below level l, Inf when there is none
FirstTimeAtOrBelow(sf, s, l) ==
    LET reached == {j \in 1..Len(sf.index) : sf.H[j][s] >= NegLog100(l)}
    IN  IF reached = {} THEN Inf
        ELSE sf.index[CHOOSE j \in reached : \A h \in reached : j <= h]

\* C11: predict_percentile(X, p) gives each subject the smallest time of the
\* timeline at which its predicted survival is at or below 1 - p, and infinity
\* when its survival never gets there.
C11_PercentileIsFirstTimeBelowOneMinusP ==
    (call.op = "predict_percentile" /\ call.exc = "") =>
       \A s \in 1..Len(call.sf.columns) :
          call.ret[s] = FirstTimeAtOrBelow(call.sf, s, 4 - call.p4)

----------------------------------------------------------------------------
(* C14: score_ *)

\* the table the most recent fit was run on, as fit handed it to the optimizer
TrainingTable(obj) ==
    CovTable(obj.norm_mean[1].columns, [j \in 1..obj.n_examples[1] |-> j],
             IF obj.fit_intercept THEN {"_intercept"} ELSE {})

\* the concordance of the most recent fit: its durations and events, and its
\* prediction at the 75th percentile of its durations, with its parameters
ScoreOfLastFit(obj) ==
    Concordance(obj.log_likelihood[1].max.T,
                PredictCumulativeHazard(obj, TrainingTable(obj),
                                        <<Percentile75(obj.log_likelihood[1].max.T)>>).ret,
                obj.log_likelihood[1].max.E)

\* C14: after successful fits and score_ accesses in any order, score_ returns
\* the concordance of the durations, events and 75th-percentile prediction of the
\* most recent fit; the access deletes the prediction the fit left; the first
\* access after a fit computes the score and an access that follows an access
\* returns the same value without computing it.
C14_ScoreFollowsLastFit ==
    [][(call'.op = "score_" /\ call'.exc = "") =>
          /\ call'.ret = <<ScoreOfLastFit(self')>>
          /\ call'.ret[1].predicted.params = self'.params_[1].values
          /\ ~HasAttr(self'.predicted_cumulative_hazard_)
          /\ call.op = "fit" => call'.computed
          /\ call.op = "score_" => (~call'.computed /\ call'.ret = call.ret)]_vars

\* C14's case: score_ computed after the second fit of a fitter with a
\* breakpoint, from the durations and the parameters of that fit
C14_Witness ==
    /\ call.op = "score_"
    /\ call.exc = ""
    /\ call.computed
    /\ fits = 2
    /\ self.n_breakpoints >= 2
    /\ call.ret[1].durations = <<2 * Step, Step>>
    /\ call.ret[1].predicted.params.argmin.T = <<2 * Step, Step>>

----------------------------------------------------------------------------
(* C15: a fit that fails *)

\* what a fit stores of its data and of its results
FitState(obj) ==
    <<obj.durations, obj.event_observed, obj.weights, obj.timeline, obj.robust,
      obj.params_, obj.log_likelihood, obj.variance_matrix_>>

\* C15: a fit call that raises, on a fitter fitted successfully before, leaves the
\* stored durations, events, weights, timeline and robust flag, and the stored
\* params_, log-likelihood and variance matrix as they were.
C15_FailedFitLeavesStateUnchanged ==
    [][(/\ call'.op = "fit"
        /\ fits' = fits + 1
        /\ call'.exc # ""
        /\ HasAttr(self.log_likelihood))
       => FitState(self') = FitState(self)]_vars

----------------------------------------------------------------------------
(* C16: prediction on a table without the intercept column *)

\* the covariate columns of the training table, the synthesized intercept aside
TrainingCovariates(obj) ==
    {c \in Range(obj.norm_mean[1].columns) : c # "_intercept"}

\* C16: on a model fitted with fit_intercept = True, predict_cumulative_hazard on
\* a table that has the training covariates but no "_intercept" column succeeds,
\* the intercept column being synthesized for the prediction.
C16_PredictionSynthesizesIntercept ==
    (/\ call.op = "predict_cumulative_hazard"
     /\ self.fit_intercept
     /\ TrainingCovariates(self) \subseteq Range(call.X.columns)
     /\ "_intercept" \notin Range(call.X.columns))
    => /\ call.exc = ""
       /\ "_intercept" \in Range(call.ret.X.columns)

----------------------------------------------------------------------------
(* C17: the data of the null model *)

\* the durations, events and weights the objective of a fitted model was
\* maximised on
FittedOn(obj) ==
    <<obj.log_likelihood[1].max.T, obj.log_likelihood[1].max.E,
      obj.log_likelihood[1].max.W>>

\* C17: the null model of the likelihood-ratio test is fitted on the same
\* durations, event indicators and weights as the full model (the full model
\* holding the data of its last successful fit).
C17_NullModelFittedOnSameData ==
    (/\ NullRefit
     /\ call.exc = ""
     /\ HasAttr(self.log_likelihood)
     /\ <<self.durations[1], self.event_observed[1], self.weights[1]>> = FittedOn(self))
    => FittedOn(call.null) = FittedOn(self)

====
